---- MODULE Spec2Model ----
(***************************************************************************)
(* Model of scripts/generate_test_doc.py: the generator of the large       *)
(* markdown test document.                                                 *)
(*                                                                         *)
(* A Python string is a sequence of tokens.  The token NL is the newline   *)
(* character; every other token is the whole content of one non-empty      *)
(* line.  The empty string is the empty sequence, so that joining,         *)
(* concatenating and splitting on newlines behave as they do on the real   *)
(* strings.  The literal 50000 of the while loop is the variable target.   *)
(***************************************************************************)
EXTENDS Integers, Sequences, FiniteSets

\* target: the threshold of the while loop; pc: the place reached in the
\* script; iter: the passes of the loop body taken since the initial state;
\* file: the output file; runs, prev: how often the script was started and
\* the file its previous run left; the others are the script's variables.
VARIABLES target, pc, sections, section_num, line_count, iter,
          full_doc, actual_lines, file, final_lines, runs, prev

vars == <<target, pc, sections, section_num, line_count, iter,
          full_doc, actual_lines, file, final_lines, runs, prev>>

(* ------------------------------ bounds --------------------------------- *)
MaxTarget == 111
MaxIter == 2
MaxRuns == 2
LateSpan == 2

(* ------------------------------ strings -------------------------------- *)
Tok(kind, a, b) == <<kind, a, b>>
NL == Tok("nl", 0, 0)
Empty == <<>>
Str(tok) == <<tok>>

RECURSIVE LinesFrom(_, _, _, _, _)
LinesFrom(kind, c, j, n, blank) ==
    IF j > n THEN <<>>
    ELSE (IF j \in blank THEN <<>> ELSE <<Tok(kind, c, j)>>)
         \o (IF j < n THEN <<NL>> ELSE <<>>)
         \o LinesFrom(kind, c, j + 1, n, blank)

\* str.join with the separator '\n'
RECURSIVE JoinNL(_)
JoinNL(list) ==
    IF Len(list) = 0 THEN <<>>
    ELSE IF Len(list) = 1 THEN list[1]
    ELSE list[1] \o <<NL>> \o JoinNL(Tail(list))

\* len(text.split('\n'))
SplitLen(text) == Cardinality({i \in DOMAIN text : text[i] = NL}) + 1

(* ------------------------------ literals ------------------------------- *)
TemplateBlank == {2, 5, 7, 9, 11, 13, 18, 20, 25, 37, 39, 45, 49, 51, 53, 55,
                  59, 65, 71, 76, 78, 80, 85, 87, 88}

\* the triple-quoted literal: 87 lines each ended by a newline, then ''
template == LinesFrom("tpl", 0, 1, 88, TemplateBlank)

code_samples ==
    << LinesFrom("code", 1, 1, 12, {}),
       LinesFrom("code", 2, 1, 7, {}),
       LinesFrom("code", 3, 1, 18, {3, 5}),
       LinesFrom("code", 4, 1, 11, {5, 8}) >>

table_samples ==
    << LinesFrom("table", 1, 1, 6, {}),
       LinesFrom("table", 2, 1, 5, {}) >>

(* --------------------------- one section ------------------------------- *)
HasCode(n) == n % 3 = 0
HasTable(n) == n % 4 = 0
HasQuote(n) == n % 5 = 0
\* mutant: the task list as an elif of the blockquote
HasTasks_Elif(n) == n % 6 = 0 /\ n % 5 # 0
HasTasks(n) == n % 6 = 0

\* mutant: a separator, not a blank line, closes every paragraph
Paragraphs_Ruled(n, count) ==
    [k \in 1..(2 * count) |->
        IF k % 2 = 1 THEN Str(Tok("para", (k + 1) \div 2, n))
        ELSE Str(Tok("hr", 0, 0))]

Paragraphs(n, count) ==
    [k \in 1..(2 * count) |->
        IF k % 2 = 1 THEN Str(Tok("para", (k + 1) \div 2, n)) ELSE Empty]

\* mutant: one list item too many
ListItems_OffByOne(count) == [k \in 1..(count + 1) |-> Str(Tok("item", k, 0))]
ListItems(count) == [k \in 1..count |-> Str(Tok("item", k, 0))]

\* the list `section` built by one pass of the loop body
BuildSection(n, paras, items, code, table) ==
    << Str(Tok("h2", n, 0)), Empty >>
    \o Paragraphs(n, paras)
    \o << Str(Tok("h3_list", 0, 0)), Empty >>
    \o ListItems(items)
    \o << Empty >>
    \o (IF HasCode(n)
        THEN << Str(Tok("h3_code", 0, 0)), Empty, code_samples[code], Empty >>
        ELSE <<>>)
    \o (IF HasTable(n)
        THEN << Str(Tok("h3_table", 0, 0)), Empty, table_samples[table], Empty >>
        ELSE <<>>)
    \o (IF HasQuote(n)
        THEN << Str(Tok("quote", 1, 0)), Str(Tok("quote", 2, 0)), Empty >>
        ELSE <<>>)
    \o (IF HasTasks(n)
        THEN << Str(Tok("h3_tasks", 0, 0)), Empty, Str(Tok("task", 1, 0)),
                Str(Tok("task", 2, 0)), Str(Tok("task", 3, 0)), Empty >>
        ELSE <<>>)
    \o << Str(Tok("h4", n, 1)), Empty, Str(Tok("subcontent", n, 1)), Empty,
          Str(Tok("hr", 0, 0)), Empty >>

(* ------------------------------ the loop ------------------------------- *)
InitSectionNum == 3
\* mutant: len(template), the characters and not the lines
InitLineCount_Chars(tpl) == Len(tpl)
InitLineCount(tpl) == SplitLen(tpl)
\* mutant: <= for <
LoopCond_Inclusive(lc, t) == lc <= t
LoopCond(lc, t) == lc < t
\* mutant: the tally is never advanced
NextLineCount_Stuck(lc, section) == lc
\* mutant: the tally counts the lines of the joined text
NextLineCount_Lines(lc, section) == lc + SplitLen(JoinNL(section))
NextLineCount(lc, section) == lc + Len(section)
\* mutant: the counter is advanced twice
NextSectionNum_Skip(n) == n + 2
NextSectionNum(n) == n + 1

\* the f-string appended after the loop
ReportedLines(actual) == actual
ReportedSections(n) == n - 1
Footer(actual, n) ==
    << NL, NL, Tok("hr", 0, 0), NL, NL, Tok("h2_stats", 0, 0), NL, NL,
       Tok("total_lines", ReportedLines(actual), 0), NL,
       Tok("generated_sections", ReportedSections(n), 0), NL,
       Tok("purpose", 0, 0), NL, NL, Tok("hr", 0, 0), NL, NL,
       Tok("end", 0, 0), NL >>

Fresh(t, r, disk, before) ==
    /\ target = t
    /\ pc = "loop"
    /\ sections = << template >>
    /\ section_num = InitSectionNum
    /\ line_count = InitLineCount(template)
    /\ iter = 0
    /\ full_doc = <<>>
    /\ actual_lines = 0
    /\ final_lines = 0
    /\ file = disk
    /\ runs = r
    /\ prev = before

Init == \E t \in 1..MaxTarget : Fresh(t, 1, <<>>, <<>>)

Iterate ==
    /\ pc = "loop"
    /\ LoopCond(line_count, target)
    /\ iter < MaxIter
    /\ \E paras \in 2..4, items \in 3..6,
          code \in 1..Len(code_samples), table \in 1..Len(table_samples) :
          LET section == BuildSection(section_num, paras, items, code, table)
              section_text == JoinNL(section)
          IN /\ sections' = Append(sections, section_text)
             /\ line_count' = NextLineCount(line_count, section)
    /\ section_num' = NextSectionNum(section_num)
    /\ iter' = iter + 1
    /\ UNCHANGED <<target, pc, full_doc, actual_lines, file, final_lines,
                   runs, prev>>

Assemble ==
    /\ pc = "loop"
    /\ ~LoopCond(line_count, target)
    /\ full_doc' = JoinNL(sections)
    /\ actual_lines' = SplitLen(JoinNL(sections))
    /\ pc' = "footer"
    /\ UNCHANGED <<target, sections, section_num, line_count, iter, file,
                   final_lines, runs, prev>>

AppendFooter ==
    /\ pc = "footer"
    /\ full_doc' = full_doc \o Footer(actual_lines, section_num)
    /\ pc' = "write"
    /\ UNCHANGED <<target, sections, section_num, line_count, iter,
                   actual_lines, file, final_lines, runs, prev>>

WriteFile ==
    /\ pc = "write"
    /\ file' = full_doc
    /\ pc' = "report"
    /\ UNCHANGED <<target, sections, section_num, line_count, iter, full_doc,
                   actual_lines, final_lines, runs, prev>>

\* the console report; the size printed beside the line count is not kept
Report ==
    /\ pc = "report"
    /\ final_lines' = SplitLen(full_doc)
    /\ pc' = "done"
    /\ UNCHANGED <<target, sections, section_num, line_count, iter, full_doc,
                   actual_lines, file, runs, prev>>

\* the script is run again: the file of the last run stays on disk until
\* the new run overwrites it
Rerun ==
    /\ pc = "done"
    /\ runs < MaxRuns
    /\ pc' = "loop"
    /\ sections' = << template >>
    /\ section_num' = InitSectionNum
    /\ line_count' = InitLineCount(template)
    /\ iter' = 0
    /\ full_doc' = <<>>
    /\ actual_lines' = 0
    /\ final_lines' = 0
    /\ runs' = runs + 1
    /\ prev' = file
    /\ UNCHANGED <<target, file>>

Next == Iterate \/ Assemble \/ AppendFooter \/ WriteFile \/ Report

Spec == Init /\ [][Next]_vars

\* the script is one sequential process: a step that can be taken is taken
FairSpec == Spec /\ WF_vars(Next)

(* ---------------- a run observed from a later loop boundary ------------ *)
\* The loop boundary before section `start` of a run whose earlier passes
\* all drew the choices ch = <<paras, items, code, table>>, with a threshold
\* that the tally has not reached yet.
LateStarts == {7, 12, 15, 20, 30, 60}
PrefixChoices == { <<2, 3, 1, 1>>, <<4, 6, 3, 2>> }

RECURSIVE PrefixSections(_, _, _)
PrefixSections(n, start, ch) ==
    IF n >= start THEN <<>>
    ELSE << JoinNL(BuildSection(n, ch[1], ch[2], ch[3], ch[4])) >>
         \o PrefixSections(NextSectionNum(n), start, ch)

RECURSIVE PrefixTally(_, _, _, _)
PrefixTally(lc, n, start, ch) ==
    IF n >= start THEN lc
    ELSE PrefixTally(NextLineCount(lc, BuildSection(n, ch[1], ch[2], ch[3], ch[4])),
                     NextSectionNum(n), start, ch)

LateInit ==
    \E start \in LateStarts, ch \in PrefixChoices, span \in 1..LateSpan :
        /\ pc = "loop"
        /\ sections = << template >> \o PrefixSections(InitSectionNum, start, ch)
        /\ section_num = start
        /\ line_count = PrefixTally(InitLineCount(template), InitSectionNum, start, ch)
        /\ target = PrefixTally(InitLineCount(template), InitSectionNum, start, ch) + span
        /\ iter = 0
        /\ full_doc = <<>>
        /\ actual_lines = 0
        /\ final_lines = 0
        /\ file = <<>>
        /\ runs = 1
        /\ prev = <<>>

LateSpec == LateInit /\ [][Next]_vars

(* ------------------------ two runs, same threshold --------------------- *)
\* a threshold that the first section reaches in some runs and not in others
PairTargets == {111}

PairInit == \E t \in PairTargets : Fresh(t, 1, <<>>, <<>>)

PairNext == Next \/ Rerun

PairSpec == PairInit /\ [][PairNext]_vars

(* ------------------------- reading a document -------------------------- *)
Count(text, kind) == Cardinality({i \in DOMAIN text : text[i][1] = kind})

Field(text, kind) ==
    LET i == CHOOSE i \in DOMAIN text : text[i][1] = kind IN text[i][2]

Generated == Len(sections) - 1

IsPrefix(s, t) == Len(s) <= Len(t) /\ SubSeq(t, 1, Len(s)) = s

SampleExtra(text) ==
    Cardinality({i \in DOMAIN text : text[i] = Tok("code", 1, 1)}) * (SplitLen(code_samples[1]) - 1)
    + Cardinality({i \in DOMAIN text : text[i] = Tok("code", 2, 1)}) * (SplitLen(code_samples[2]) - 1)
    + Cardinality({i \in DOMAIN text : text[i] = Tok("code", 3, 1)}) * (SplitLen(code_samples[3]) - 1)
    + Cardinality({i \in DOMAIN text : text[i] = Tok("code", 4, 1)}) * (SplitLen(code_samples[4]) - 1)
    + Cardinality({i \in DOMAIN text : text[i] = Tok("table", 1, 1)}) * (SplitLen(table_samples[1]) - 1)
    + Cardinality({i \in DOMAIN text : text[i] = Tok("table", 2, 1)}) * (SplitLen(table_samples[2]) - 1)

IsStructural(t) ==
    t[1] \in {"h2", "h3_list", "h3_code", "h3_table", "h3_tasks", "h4", "hr", "h2_stats"}

Shape(text) == SelectSeq(text, IsStructural)

\* the text of a written document before its footer
Body(text) == SubSeq(text, 1, Len(text) - Len(Footer(0, 0)))

IsMark(t) ==
    \/ t[1] \in {"item", "h3_code", "h3_table", "h3_tasks", "h4"}
    \/ t[1] \in {"code", "table"} /\ t[3] = 1
    \/ t[1] = "quote" /\ t[2] = 1

Kinds(text) == [k \in DOMAIN text |-> text[k][1]]

AfterItems(kinds) ==
    LET m == Cardinality({k \in DOMAIN kinds : kinds[k] = "item"})
    IN IF \A k \in 1..m : kinds[k] = "item"
       THEN SubSeq(kinds, m + 1, Len(kinds)) ELSE << "items not first" >>

ExpectedKinds(n) ==
    (IF n % 3 = 0 THEN << "h3_code", "code" >> ELSE <<>>)
    \o (IF n % 4 = 0 THEN << "h3_table", "table" >> ELSE <<>>)
    \o (IF n % 5 = 0 THEN << "quote" >> ELSE <<>>)
    \o (IF n % 6 = 0 THEN << "h3_tasks" >> ELSE <<>>)
    \o << "h4" >>

(* ------------------------------- claims -------------------------------- *)

\* C1: for every threshold and every sequence of random choices the document
\* written to disk has at least `target` newline-delimited lines, although
\* the loop is stopped by the tally and not by the line count of the text.
C1_WrittenAtLeastTarget ==
    pc \in {"report", "done"} => SplitLen(file) >= target

C1_Witness ==
    /\ pc = "done"
    /\ iter = 2
    /\ line_count < actual_lines
    /\ SplitLen(file) >= target

\* C2 (as claimed): the Total Lines number in the footer is the line count
\* of the complete document written to disk, the number printed as
\* final_lines.
C2_FooterTotalIsFileTotal ==
    pc = "done" =>
        /\ Field(file, "total_lines") = SplitLen(file)
        /\ Field(file, "total_lines") = final_lines

\* C3 (as claimed): the Generated Sections number in the footer is the
\* number of sections the loop appended, the number of loop passes.
C3_FooterSectionsIsPasses ==
    pc = "done" =>
        /\ Field(file, "generated_sections") = iter
        /\ Field(file, "generated_sections") = Count(file, "h2")

\* C4 (as claimed): with the threshold 100 the loop body never runs and the
\* document is the template followed by the footer.
C4_NoPassAtHundred ==
    target = 100 =>
        /\ iter = 0
        /\ Generated = 0
        /\ pc = "done" => Count(file, "h2") = 0

\* C4 (amended): the template is recorded as 88 lines.  With a threshold of
\* at most 88 the loop body never runs and the document is the template
\* followed by the footer; with the threshold 100 the loop body runs exactly
\* once and the document holds the one Generated Section 3.
C4_NoPassUpTo88 ==
    /\ iter = 0 => line_count = 88
    /\ target <= 88 =>
          /\ iter = 0
          /\ pc = "done" => file = template \o Footer(88, 3)
    /\ (target = 100 /\ pc # "loop") =>
          /\ iter = 1
          /\ pc = "done" => Count(file, "h2") = 1 /\ Count(file, "h4") = 1

C4_Witness ==
    /\ pc = "done"
    /\ target = 88
    /\ iter = 0
    /\ Count(file, "h2") = 0

\* C5: for every threshold and every sequence of random choices the loop
\* ends: the state in which the footer is appended and the file written is
\* eventually reached.
C5_Terminates ==
    <>(pc = "done" /\ Count(file, "total_lines") = 1)

C5_Witness ==
    /\ pc = "done"
    /\ iter >= 1
    /\ Count(file, "total_lines") = 1

\* C6: the section counter starts at 3 and grows by 1 per Generated Section:
\* the k-th Generated Section has heading number k+2 and closing subsection
\* (k+2).1, and nothing else changes the counter.
C6_Numbering ==
    /\ section_num = Len(sections) + 2
    /\ iter = 0 => section_num = 3
    /\ \A k \in 1..(Len(sections) - 1) :
          /\ sections[k + 1][1] = Tok("h2", k + 2, 0)
          /\ Count(sections[k + 1], "h2") = 1
          /\ Count(sections[k + 1], "h4") = 1
          /\ Field(sections[k + 1], "h4") = k + 2

C6_Witness ==
    /\ Len(sections) = 3
    /\ section_num = 5
    /\ Field(sections[3], "h4") = 4

\* C7 (as claimed): two runs with the same threshold and different random
\* choices write documents with the same structural shape: the same section
\* headings, subsection numbers and separators.
C7_SameShape ==
    (runs = 2 /\ pc = "done") => Shape(prev) = Shape(file)

\* C7 (amended): two runs with the same threshold can append different
\* numbers of Generated Sections; the structural shape of the sections of
\* the run with fewer sections is a prefix of the shape of the other, so
\* the shapes agree whenever both runs append the same number of sections.
C7_ShapePrefix ==
    (runs = 2 /\ pc = "done") =>
        \/ IsPrefix(Shape(Body(prev)), Shape(Body(file)))
        \/ IsPrefix(Shape(Body(file)), Shape(Body(prev)))

C7_Witness ==
    /\ runs = 2
    /\ pc = "done"
    /\ Count(prev, "h2") = 1
    /\ Count(file, "h2") = 2
    /\ IsPrefix(Shape(Body(prev)), Shape(Body(file)))

\* C8 (as claimed): at every loop boundary the tally is the line count of
\* the blocks accumulated so far.
C8_TallyIsLineCount ==
    pc = "loop" => line_count = SplitLen(JoinNL(sections))

\* C8 (amended): a pass adds to the tally the number of elements of the
\* section's list, in which a code or table sample is one element however
\* many lines it has.  At every loop boundary the tally is the line count
\* of the accumulated blocks less, for each sample inserted, that sample's
\* line count minus one.
C8_TallyIsElementCount ==
    pc = "loop" =>
        line_count + SampleExtra(JoinNL(sections)) = SplitLen(JoinNL(sections))

C8_Witness ==
    /\ pc = "loop"
    /\ iter = 1
    /\ Count(sections[2], "h3_code") = 1
    /\ line_count + 17 = SplitLen(JoinNL(sections))

\* C9: section n has a code block iff 3 divides n, a table iff 4 divides n,
\* a blockquote iff 5 divides n and a task list iff 6 divides n, each
\* decided on its own, in the order code, table, blockquote, task list,
\* after the list items and before the closing subsection.
C9_Fragments ==
    \A k \in 2..Len(sections) :
        AfterItems(Kinds(SelectSeq(sections[k], IsMark))) = ExpectedKinds(k + 1)

C9_Witness ==
    /\ iter = 1
    /\ section_num = 61
    /\ Kinds(SelectSeq(sections[Len(sections)], IsMark)) \in
          { [k \in 1..m |-> "item"]
            \o << "h3_code", "code", "h3_table", "table", "quote", "h3_tasks", "h4" >>
            : m \in 3..6 }

\* C10: the loop stops at the first section that brings the tally to the
\* threshold: a pass starts with the tally below the threshold and adds
\* between 18 and 42 to it, so once the loop has ended after at least one
\* Generated Section the tally lies in target..target+41.
C10_StopsAtFirst ==
    /\ [][section_num' # section_num =>
            /\ line_count < target
            /\ line_count' - line_count \in 18..42]_vars
    /\ []((pc # "loop" /\ Generated >= 1) =>
            (target <= line_count /\ line_count <= target + 41))

C10_Witness ==
    /\ pc = "done"
    /\ iter = 1
    /\ line_count = target + 41
====
